---- MODULE Spec2Model ----
(***************************************************************************)
(* Entities (buff tracker with getStatusUptime) and Requiescat (buff       *)
(* window classifier) of xivanalysis, as state machines.                   *)
(*                                                                         *)
(* Timestamps are positive integers (offsets inside a report); the fight   *)
(* starts at FightStart.  JavaScript's null / undefined / NaN are the      *)
(* negative sentinels Null, Undefined and NaN, which no timestamp or stack *)
(* count can take.                                                         *)
(***************************************************************************)
EXTENDS Integers, Sequences, FiniteSets, TLC

\* ------------------------------------------------------------------ bounds
MaxTime == 2
MaxEvents == 3
MaxSpan == 4
MaxBuffs == 2
MaxInvulns == 2
MaxCasts == 3
MaxHolySpirits == 4

\* ------------------------------------------------------- program constants
Null == -1
Undefined == -2
NaN == -3
FightStart == 1

TICK_AMOUNT == 141
MP_THRESHOLD_PERCENT == 80
EXPECTED == 5
ATTACK == 1
REQUIESCAT == 2
HOLY_SPIRIT == 3
OTHER_ACTION == 4

APPLY == "apply"
REMOVE == "remove"

Entities == {1, 2}
NoEntity == 0
Abilities == {1, 2}
PlayerId == 1
OtherId == 2
Sources == {PlayerId, OtherId, Null}
StackValues == {0, 2}
Times == FightStart..MaxTime
Spans == FightStart..MaxSpan

VARIABLES
    buffs,              \* entity id -> entity.buffs, in push order
    invulns,            \* entity id -> this.invuln.getInvulns(entity.id)
    fabricated,         \* events handed to parser.fabricateEvent, in order
    currentTimestamp,   \* parser.currentTimestamp
    log,                \* the log events handled so far, in arrival order
    lastOp,             \* the handler or query that ran last, with its arguments
    resources,          \* combatants.selected.resources at the last opener cast
    requiescatState,
    requiescatRotations,
    requiescatErrorResult

trackerVars == <<buffs, invulns, fabricated, currentTimestamp, log>>
requiescatVars == <<resources, requiescatState, requiescatRotations, requiescatErrorResult>>
vars == <<buffs, invulns, fabricated, currentTimestamp, log, lastOp,
          resources, requiescatState, requiescatRotations, requiescatErrorResult>>

\* ------------------------------------------------------ JavaScript helpers
\* A relational comparison converts null to 0.
ToNumber(x) == IF x = Null THEN 0 ELSE x

\* a - b on numbers; undefined or NaN operands give NaN.
JsMinus(a, b) ==
    IF a \in {Undefined, NaN} \/ b \in {Undefined, NaN}
    THEN NaN
    ELSE ToNumber(a) - ToNumber(b)

\* x || y : y when x is falsy (null, undefined, NaN, 0).
JsOr(x, y) == IF x \in {Null, Undefined, NaN, 0} THEN y ELSE x

\* --------------------------------------------------------- getStatusUptime
\* matchesStatus without the test of the source.
matchesStatusAnySource(buff, statusId, sourceId) ==
    buff.guid = statusId

\* The buff filter of the scan.
matchesStatus(buff, statusId, sourceId) ==
    ~ ( buff.guid # statusId
        \/ (buff.sourceID # sourceId /\ buff.sourceID # Null) )

\* The 'invulnerable' invulns of an entity, in getInvulns order.
invulnerableOf(entity) ==
    SelectSeq(invulns[entity], LAMBDA invuln : invuln.type = "invulnerable")

\* discardInvuln with the buff's end read where its start is meant.
discardInvulnByEnd(b, invuln) ==
    invuln.end < ToNumber(b.end) \/ invuln.start > ToNumber(b.end)

\* An invuln outside the span of the buff is discarded.  buff.end is null for
\* an open buff and compares as 0.
discardInvuln(b, invuln) ==
    invuln.end < b.start \/ invuln.start > ToNumber(b.end)

\* The for loop over ranges for one invuln, from index i on.  st.b is the buff
\* object (start, end); a range with self = TRUE is that same object, so a
\* chop of it is a chop of the buff.  ranges.length is read anew each turn.
RECURSIVE splitRanges(_, _, _)
splitRanges(st, invuln, i) ==
    IF i > Len(st.ranges) THEN st
    ELSE
    LET range == st.ranges[i] IN
    IF invuln.start < range.start /\ invuln.end > range.start
    THEN \* Invuln chops start of range
         splitRanges(
            [b |-> IF range.self THEN [st.b EXCEPT !.start = invuln.end] ELSE st.b,
             ranges |-> [st.ranges EXCEPT ![i].start = invuln.end]],
            invuln, i + 1)
    ELSE IF invuln.start < ToNumber(range.end) /\ invuln.end > ToNumber(range.end)
    THEN \* Invuln chops end of range
         splitRanges(
            [b |-> IF range.self THEN [st.b EXCEPT !.end = invuln.start] ELSE st.b,
             ranges |-> [st.ranges EXCEPT ![i].end = invuln.start]],
            invuln, i + 1)
    ELSE IF invuln.start > range.start /\ invuln.end < ToNumber(range.end)
    THEN \* Invuln splits the range: splice(i, 1, head, tail)
         splitRanges(
            [b |-> st.b,
             ranges |-> SubSeq(st.ranges, 1, i - 1)
                        \o << [start |-> range.start, end |-> invuln.start, self |-> FALSE],
                              [start |-> invuln.end, end |-> range.end, self |-> FALSE] >>
                        \o SubSeq(st.ranges, i + 1, Len(st.ranges))],
            invuln, i + 1)
    ELSE splitRanges(st, invuln, i + 1)

\* invulns.forEach over the ranges of one buff, from invuln k on.
RECURSIVE applyInvulns(_, _, _)
applyInvulns(st, invs, k) ==
    IF k > Len(invs) THEN st
    ELSE IF discardInvuln(st.b, invs[k])
         THEN applyInvulns(st, invs, k + 1)
         ELSE applyInvulns(splitRanges(st, invs[k], 1), invs, k + 1)

\* const ranges = [buff] and the invuln pass of one matching buff.
buffRanges(entity, buff) ==
    applyInvulns(
        [b |-> [start |-> buff.start, end |-> buff.end],
         ranges |-> << [start |-> buff.start, end |-> buff.end, self |-> TRUE] >>],
        invulnerableOf(entity), 1)

\* The faked apply / remove events of the ranges of one buff.
RECURSIVE rangeEvents(_, _)
rangeEvents(ranges, now) ==
    IF ranges = << >> THEN << >>
    ELSE << [timestamp |-> Head(ranges).start, type |-> APPLY],
            [timestamp |-> JsOr(Head(ranges).end, now), type |-> REMOVE] >>
         \o rangeEvents(Tail(ranges), now)

\* entity.buffs.forEach from buff k on: the events pushed for one entity.
RECURSIVE entityEvents(_, _, _, _, _, _)
entityEvents(list, entity, k, statusId, sourceId, now) ==
    IF k > Len(list) THEN << >>
    ELSE (IF matchesStatus(list[k], statusId, sourceId)
          THEN rangeEvents(buffRanges(entity, list[k]).ranges, now)
          ELSE << >>)
         \o entityEvents(list, entity, k + 1, statusId, sourceId, now)

\* Object.values(entities).forEach from entity id e on (ids in ascending order).
RECURSIVE uptimeEvents(_, _, _, _, _)
uptimeEvents(bs, e, statusId, sourceId, now) ==
    IF e \notin Entities THEN << >>
    ELSE entityEvents(bs[e], e, 1, statusId, sourceId, now)
         \o uptimeEvents(bs, e + 1, statusId, sourceId, now)

\* sortEvents left out: the events stay in push order.
sortEventsNone(events) == events

\* events.sort((a, b) => a.timestamp - b.timestamp): a stable sort.
RECURSIVE insertEvent(_, _)
insertEvent(sorted, ev) ==
    IF sorted = << >> THEN << ev >>
    ELSE IF sorted[Len(sorted)].timestamp <= ev.timestamp
         THEN Append(sorted, ev)
         ELSE Append(insertEvent(SubSeq(sorted, 1, Len(sorted) - 1), ev),
                     sorted[Len(sorted)])

RECURSIVE sortEvents(_)
sortEvents(events) ==
    IF events = << >> THEN << >>
    ELSE insertEvent(sortEvents(SubSeq(events, 1, Len(events) - 1)),
                     events[Len(events)])

\* The reduce over the sorted events; acc = (uptime, active, start).
RECURSIVE reduceEvents(_, _)
reduceEvents(events, acc) ==
    IF events = << >> THEN acc.uptime
    ELSE LET event == Head(events) IN
         IF event.type = APPLY
         THEN reduceEvents(Tail(events),
                [uptime |-> acc.uptime,
                 active |-> acc.active + 1,
                 start  |-> IF acc.active = 0 THEN event.timestamp ELSE acc.start])
         ELSE reduceEvents(Tail(events),
                [uptime |-> IF acc.active - 1 = 0
                            THEN acc.uptime + (event.timestamp - ToNumber(acc.start))
                            ELSE acc.uptime,
                 active |-> acc.active - 1,
                 start  |-> acc.start])

\* The value getStatusUptime(statusId, sourceId) returns at time now when the
\* entities hold the buff lists bs.
statusUptime(bs, statusId, sourceId, now) ==
    reduceEvents(sortEvents(uptimeEvents(bs, 1, statusId, sourceId, now)),
                 [uptime |-> 0, active |-> 0, start |-> Null])

\* The buff lists after the call: a chopped range that is the buff object
\* itself leaves its new start / end in the buff.
buffsAfterUptime(bs, statusId, sourceId) ==
    [e \in Entities |->
        [k \in 1..Len(bs[e]) |->
            IF matchesStatus(bs[e][k], statusId, sourceId)
            THEN LET b == buffRanges(e, bs[e][k]).b
                 IN  [bs[e][k] EXCEPT !.start = b.start, !.end = b.end]
            ELSE bs[e][k]]]

\* ------------------------------------------------------------- the log
\* A buff event as the handlers read it: ability.guid, sourceID, timestamp,
\* stack (apply/remove stack events only) and the entity getEntity resolves
\* it to (NoEntity: not by or to the player, or no such entity).
BuffEvent(entity, guid, sourceID, timestamp, stack) ==
    [entity |-> entity, guid |-> guid, sourceID |-> sourceID,
     timestamp |-> timestamp, stack |-> stack]

\* What lastOp and log record of a call.
Call(op, event, isDebuff, ret) ==
    [op |-> op, entity |-> event.entity, guid |-> event.guid,
     sourceID |-> event.sourceID, timestamp |-> event.timestamp,
     stack |-> event.stack, isDebuff |-> isDebuff, ret |-> ret]

NoCall == Call("init", BuffEvent(NoEntity, 0, Null, FightStart, Undefined), FALSE, 0)

\* Queries run once the log has been handled; no event is handled after one.
ingesting == lastOp.op # "getStatusUptime" /\ Len(log) < MaxEvents

\* The parser's bookkeeping around a handler call.
handled(call) ==
    /\ log' = Append(log, call)
    /\ lastOp' = call
    /\ currentTimestamp' = call.timestamp
    /\ UNCHANGED invulns
    /\ UNCHANGED requiescatVars

\* ------------------------------------------------------- buff handlers
getBuffEventEntity(event) == event.entity

\* The event triggerChangeBuffStack fabricates from the buff.
triggerChangeBuffStack(buff, timestamp, oldStacks, newStacks) ==
    [guid |-> buff.guid, sourceID |-> buff.sourceID,
     type |-> IF buff.isDebuff THEN "changedebuffstack" ELSE "changebuffstack",
     timestamp |-> timestamp,
     oldStacks |-> oldStacks,
     newStacks |-> newStacks,
     stacksGained |-> JsMinus(newStacks, oldStacks)]

\* findOpenBuff without the buff.end === null test.
findAnyBuff(list, guid) ==
    LET any == {k \in 1..Len(list) : list[k].guid = guid}
    IN  IF any = {} THEN 0 ELSE CHOOSE k \in any : \A j \in any : k <= j

\* entity.buffs.find(buff => guid matches && buff.end === null): the index of
\* the first open buff of the ability, 0 when there is none.
findOpenBuff(list, guid) ==
    LET open == {k \in 1..Len(list) : list[k].guid = guid /\ list[k].end = Null}
    IN  IF open = {} THEN 0 ELSE CHOOSE k \in open : \A j \in open : k <= j

\* The buff applyBuff builds, buff.stacks = 1 included.
appliedBuff(event, isDebuff) ==
    [guid |-> event.guid,
     sourceID |-> event.sourceID,
     start |-> event.timestamp,
     end |-> Null,
     stackHistory |-> << [stacks |-> 1, timestamp |-> event.timestamp] >>,
     isDebuff |-> isDebuff,
     stacks |-> 1]

\* fakedBuff started at the removal instead of the start of the fight.
fakedBuffAtEvent(event, isDebuff) ==
    [guid |-> event.guid,
     sourceID |-> event.sourceID,
     start |-> event.timestamp,
     end |-> Null,
     stackHistory |-> << [stacks |-> 1, timestamp |-> event.timestamp] >>,
     isDebuff |-> isDebuff,
     stacks |-> Undefined]

\* The buff removeBuff fakes from the start of the fight; it has no stacks field.
fakedBuff(event, isDebuff) ==
    [guid |-> event.guid,
     sourceID |-> event.sourceID,
     start |-> FightStart,
     end |-> Null,
     stackHistory |-> << [stacks |-> 1, timestamp |-> FightStart] >>,
     isDebuff |-> isDebuff,
     stacks |-> Undefined]

\* stackedBuff without the push to stackHistory.
stackedBuffNoHistory(buff, event) ==
    [buff EXCEPT !.stacks = event.stack]

\* updateBuffStack on the buff it found.
stackedBuff(buff, event) ==
    [buff EXCEPT !.stacks = event.stack,
                 !.stackHistory = Append(@, [stacks |-> event.stack,
                                             timestamp |-> event.timestamp])]

\* removeBuff's end of the buff.
endedBuff(buff, event) ==
    [buff EXCEPT !.end = event.timestamp,
                 !.stackHistory = Append(@, [stacks |-> 0,
                                             timestamp |-> event.timestamp])]

applyBuff(event, isDebuff) ==
    /\ ingesting
    /\ handled(Call("applyBuff", event, isDebuff, 0))
    /\ LET entity == getBuffEventEntity(event) IN
       IF entity = NoEntity
       THEN UNCHANGED <<buffs, fabricated>>
       ELSE LET buff == appliedBuff(event, isDebuff)
            IN  /\ fabricated' = Append(fabricated,
                        triggerChangeBuffStack(buff, event.timestamp, 0, 1))
                /\ buffs' = [buffs EXCEPT ![entity] = Append(@, buff)]

updateBuffStack(event) ==
    /\ ingesting
    /\ handled(Call("updateBuffStack", event, FALSE, 0))
    /\ LET entity == getBuffEventEntity(event) IN
       IF entity = NoEntity
       THEN UNCHANGED <<buffs, fabricated>>
       ELSE LET k == findOpenBuff(buffs[entity], event.guid) IN
            IF k = 0
            THEN \* console.error, nothing else
                 UNCHANGED <<buffs, fabricated>>
            ELSE LET oldStacks == JsOr(buffs[entity][k].stacks, 1)
                     buff == stackedBuff(buffs[entity][k], event)
                 IN  /\ buffs' = [buffs EXCEPT ![entity][k] = buff]
                     /\ fabricated' = Append(fabricated,
                            triggerChangeBuffStack(buff, event.timestamp,
                                                   oldStacks, buff.stacks))

removeBuff(event, isDebuff) ==
    /\ ingesting
    /\ handled(Call("removeBuff", event, isDebuff, 0))
    /\ LET entity == getBuffEventEntity(event) IN
       IF entity = NoEntity
       THEN UNCHANGED <<buffs, fabricated>>
       ELSE LET found == findOpenBuff(buffs[entity], event.guid)
                \* If there's no existing buff, fake one from the start of the fight
                list == IF found # 0 THEN buffs[entity]
                        ELSE Append(buffs[entity], fakedBuff(event, isDebuff))
                k == IF found # 0 THEN found ELSE Len(list)
                \* End the buff and trigger a final stack change
                buff == endedBuff(list[k], event)
            IN  /\ buffs' = [buffs EXCEPT ![entity] = [list EXCEPT ![k] = buff]]
                /\ fabricated' = Append(fabricated,
                        triggerChangeBuffStack(buff, event.timestamp, buff.stacks, 0))

\* getStatusUptime(statusId, sourceId): the value goes to lastOp.ret.
getStatusUptime(statusId, sourceId) ==
    /\ lastOp' = [op |-> "getStatusUptime", entity |-> NoEntity, guid |-> statusId,
                  sourceID |-> sourceId, timestamp |-> currentTimestamp,
                  stack |-> Undefined, isDebuff |-> FALSE,
                  ret |-> statusUptime(buffs, statusId, sourceId, currentTimestamp)]
    /\ buffs' = buffsAfterUptime(buffs, statusId, sourceId)
    /\ UNCHANGED <<invulns, fabricated, currentTimestamp, log>>
    /\ UNCHANGED requiescatVars

\* ------------------------------------------------- Spec: the tracker's pass
Invuln(start, end, type) == [start |-> start, end |-> end, type |-> type]

NoResources == [mp |-> 0, maxMP |-> 1]
IdleState == [start |-> Null, holySpirits |-> 0]

\* The classifier after construction.
InitRequiescat ==
    /\ resources = NoResources
    /\ requiescatState = IdleState
    /\ requiescatRotations = [t \in Times |-> << >>]
    /\ requiescatErrorResult = [missedHolySpirits |-> 0, missedRequiescatBuffs |-> 0]

Init ==
    /\ buffs = [e \in Entities |-> << >>]
    /\ invulns = [e \in Entities |-> << >>]
    /\ fabricated = << >>
    /\ currentTimestamp = FightStart
    /\ log = << >>
    /\ lastOp = NoCall
    /\ InitRequiescat

\* The buff events of the log in Spec: status 1 is a buff the player casts,
\* status 2 a debuff with no recorded source, both on entity 1; one event per
\* handler is not by or to the player.
sourceOf(guid) == IF guid = 1 THEN PlayerId ELSE Null
isDebuffStatus(guid) == guid = 2

LogEvents(stacks) ==
    { BuffEvent(1, guid, sourceOf(guid), timestamp, stack) :
        guid \in Abilities, timestamp \in Times, stack \in stacks }
    \cup { BuffEvent(NoEntity, 1, OtherId, MaxTime, CHOOSE stack \in stacks : TRUE) }

OnApplyBuff ==
    \E event \in LogEvents({Undefined}) :
        applyBuff(event, isDebuffStatus(event.guid))

OnUpdateBuffStack ==
    \E event \in LogEvents(StackValues) :
        updateBuffStack(event)

OnRemoveBuff ==
    \E event \in LogEvents({Undefined}) :
        removeBuff(event, isDebuffStatus(event.guid))

\* sourceId defaults to this.parser.player.id.
Query ==
    \E statusId \in Abilities :
        getStatusUptime(statusId, PlayerId)

Next == OnApplyBuff \/ OnUpdateBuffStack \/ OnRemoveBuff \/ Query

Spec == Init /\ [][Next]_vars

\* ------------------------------------ SpecUptime: queries on a handled log
\* A buff as applyBuff at start and removeBuff at end leave it.
closedBuff(guid, start, end) ==
    endedBuff(appliedBuff(BuffEvent(1, guid, sourceOf(guid), start, Undefined),
                          isDebuffStatus(guid)),
              BuffEvent(1, guid, sourceOf(guid), end, Undefined))

UptimeBuffs ==
    { closedBuff(guid, start, end) :
        guid \in Abilities, start \in Spans, end \in Spans } 

ClosedBuffs == { b \in UptimeBuffs : b.start <= b.end }

\* The invulns the collaborator reports: 'invulnerable' ones over any span,
\* and an 'untargetable' one over the whole fight.
UptimeInvulns ==
    { Invuln(start, end, "invulnerable") :
        start \in Spans, end \in Spans }

SpanInvulns ==
    { i \in UptimeInvulns : i.start < i.end }
    \cup { Invuln(FightStart, MaxSpan, "untargetable") }

SeqsUpTo(S, n) == UNION { [1..k -> S] : k \in 0..n }

RECURSIVE total(_, _)
total(f, e) == IF e \notin Entities THEN 0 ELSE Len(f[e]) + total(f, e + 1)

InitUptimeOf(nBuffs, nInvulns) ==
    /\ buffs \in [Entities -> SeqsUpTo(ClosedBuffs, nBuffs)]
    /\ total(buffs, 1) <= nBuffs
    /\ invulns \in [Entities -> SeqsUpTo(SpanInvulns, nInvulns)]
    /\ total(invulns, 1) <= nInvulns
    /\ fabricated = << >>
    /\ currentTimestamp = MaxSpan
    /\ log = << >>
    /\ lastOp = NoCall
    /\ InitRequiescat

QueryAny ==
    \E statusId \in Abilities, sourceId \in {PlayerId, OtherId} :
        getStatusUptime(statusId, sourceId)

InitUptime == InitUptimeOf(MaxBuffs, MaxInvulns)
SpecUptime == InitUptime /\ [][QueryAny]_vars

\* No invulns at all.
InitUnion == InitUptimeOf(MaxBuffs, 0)
SpecUnion == InitUnion /\ [][QueryAny]_vars

\* One invuln in the whole fight, at most two buffs.
InitSplit == InitUptimeOf(2, 1) /\ total(invulns, 1) = 1
SpecSplit == InitSplit /\ [][QueryAny]_vars

\* Buffs applied and not removed when the query is made.
openBuff(guid, start) ==
    appliedBuff(BuffEvent(1, guid, sourceOf(guid), start, Undefined),
                isDebuffStatus(guid))

OpenBuffSet == { openBuff(guid, start) : guid \in Abilities, start \in Spans }

\* At most one buff, still open, and at most one invuln in the whole fight.
InitOpen ==
    /\ buffs \in [Entities -> SeqsUpTo(OpenBuffSet, 1)]
    /\ total(buffs, 1) <= 1
    /\ invulns \in [Entities -> SeqsUpTo(SpanInvulns, 1)]
    /\ total(invulns, 1) <= 1
    /\ fabricated = << >>
    /\ currentTimestamp = MaxSpan
    /\ log = << >>
    /\ lastOp = NoCall
    /\ InitRequiescat

SpecOpen == InitOpen /\ [][QueryAny]_vars

\* Closed buffs of status 1 from the player, from another source and with no
\* recorded source, and of status 2 from the player.
FilterBuffs ==
    { [closedBuff(guid, start, end) EXCEPT !.sourceID = sourceID] :
        guid \in {1}, sourceID \in Sources, start \in Spans, end \in Spans }
    \cup { [closedBuff(guid, start, end) EXCEPT !.sourceID = PlayerId] :
        guid \in {2}, start \in Spans, end \in Spans }

\* At most two buffs of positive length and at most one invuln, of entity 1.
InitFilter ==
    /\ buffs \in [Entities -> SeqsUpTo({b \in FilterBuffs : b.start < b.end}, 2)]
    /\ total(buffs, 1) <= 2
    /\ invulns \in [Entities -> SeqsUpTo(SpanInvulns, 1)]
    /\ invulns[2] = << >>
    /\ fabricated = << >>
    /\ currentTimestamp = MaxSpan
    /\ log = << >>
    /\ lastOp = NoCall
    /\ InitRequiescat

SpecFilter == InitFilter /\ [][QueryAny]_vars

\* -------------------------------------------------------------- Requiescat
\* mpGate without the allowance of one MP tick.
mpGateNoTick(res) ==
    res.mp * 100 >= MP_THRESHOLD_PERCENT * res.maxMP

\* (mp + TICK_AMOUNT) / maxMP >= MP_THRESHOLD, with MP_THRESHOLD = 0.8.  For
\* the integers of the model the double quotient lies on the same side of the
\* double 0.8 as the exact quotient does of 4/5.
mpGate(res) ==
    (res.mp + TICK_AMOUNT) * 100 >= MP_THRESHOLD_PERCENT * res.maxMP

CastEvent(actionId, timestamp) ==
    BuffEvent(NoEntity, actionId, PlayerId, timestamp, Undefined)

\* requiescatState and requiescatErrorResult after the opener branch of onCast.
afterOpener(event, res) ==
    IF event.guid # REQUIESCAT
    THEN [state |-> requiescatState, errors |-> requiescatErrorResult]
    ELSE IF mpGate(res)
         THEN [state |-> [requiescatState EXCEPT !.start = event.timestamp],
               errors |-> requiescatErrorResult]
         ELSE [state |-> requiescatState,
               errors |-> [requiescatErrorResult EXCEPT !.missedRequiescatBuffs = @ + 1]]

\* isNoOp that skips no action.
isNoOpNever(actionId) == FALSE

\* The action onCast returns on at once.
isNoOp(actionId) == actionId = ATTACK

\* onCast(event); res is combatants.selected.resources at the cast.
onCast(event, res) ==
    /\ Len(log) < MaxCasts
    /\ log' = Append(log, Call("onCast", event, FALSE, 0))
    /\ lastOp' = Call("onCast", event, FALSE, 0)
    /\ resources' = IF event.guid = REQUIESCAT THEN res ELSE resources
    /\ UNCHANGED <<buffs, invulns, fabricated, currentTimestamp>>
    /\ IF isNoOp(event.guid)
       THEN UNCHANGED <<requiescatState, requiescatRotations, requiescatErrorResult>>
       ELSE LET after == afterOpener(event, res) IN
            /\ requiescatErrorResult' = after.errors
            /\ IF after.state.start # Null
               THEN /\ requiescatState' =
                        IF event.guid = HOLY_SPIRIT
                        THEN [after.state EXCEPT !.holySpirits = @ + 1]
                        ELSE after.state
                    /\ requiescatRotations' =
                        [requiescatRotations EXCEPT ![after.state.start] = Append(@, event)]
               ELSE /\ requiescatState' = after.state
                    /\ UNCHANGED requiescatRotations

\* Max that always takes its second argument.
MaxUnclamped(a, b) == b

Max(a, b) == IF a >= b THEN a ELSE b

onRemoveRequiescat ==
    /\ Len(log) < MaxCasts
    /\ log' = Append(log, Call("onRemoveRequiescat", CastEvent(0, FightStart), FALSE, 0))
    /\ lastOp' = Call("onRemoveRequiescat", CastEvent(0, FightStart), FALSE, 0)
    /\ requiescatErrorResult' =
            [requiescatErrorResult EXCEPT !.missedHolySpirits =
                @ + Max(0, EXPECTED - requiescatState.holySpirits)]
    /\ requiescatState' = IdleState
    /\ UNCHANGED <<buffs, invulns, fabricated, currentTimestamp>>
    /\ UNCHANGED <<resources, requiescatRotations>>

\* The resources the combatants module may report at an opener cast: 70 %,
\* 79 %, 80 % and 85 % of a large pool, and 70 % and 80 % of pools around
\* TICK_AMOUNT * 10.
ResourceStates ==
    { [mp |-> 7000, maxMP |-> 10000], [mp |-> 7900, maxMP |-> 10000],
      [mp |-> 8000, maxMP |-> 10000], [mp |-> 8500, maxMP |-> 10000],
      [mp |-> 994, maxMP |-> 1420], [mp |-> 987, maxMP |-> 1410],
      [mp |-> 700, maxMP |-> 1000], [mp |-> 800, maxMP |-> 1000] }

OnCastOpener ==
    \E timestamp \in Times, res \in ResourceStates :
        onCast(CastEvent(REQUIESCAT, timestamp), res)

OnCastOther ==
    \E actionId \in {ATTACK, HOLY_SPIRIT, OTHER_ACTION}, timestamp \in Times :
        onCast(CastEvent(actionId, timestamp), resources)

OnRemoveRequiescat == onRemoveRequiescat

NextRequiescat == OnCastOpener \/ OnCastOther \/ OnRemoveRequiescat

SpecRequiescat == Init /\ [][NextRequiescat]_vars

\* ------------------------------- SpecWindow: casts inside an open window
\* The resources of an opener cast that passes the gate.
OpenResources == [mp |-> 8500, maxMP |-> 10000]

\* The classifier after an opener cast at the start of the fight that passed
\* the gate and up to MaxHolySpirits Holy Spirit casts that followed it.
InitWindow ==
    /\ buffs = [e \in Entities |-> << >>]
    /\ invulns = [e \in Entities |-> << >>]
    /\ fabricated = << >>
    /\ currentTimestamp = FightStart
    /\ log = << >>
    /\ lastOp = NoCall
    /\ resources = OpenResources
    /\ requiescatErrorResult = [missedHolySpirits |-> 0, missedRequiescatBuffs |-> 0]
    /\ \E n \in 0..MaxHolySpirits :
        /\ requiescatState = [start |-> FightStart, holySpirits |-> n]
        /\ requiescatRotations =
            [t \in Times |->
                IF t = FightStart
                THEN << CastEvent(REQUIESCAT, FightStart) >>
                     \o [i \in 1..n |-> CastEvent(HOLY_SPIRIT, FightStart)]
                ELSE << >>]

\* An opener cast with the resources of the window's opener.
OnCastReopen ==
    \E timestamp \in Times :
        onCast(CastEvent(REQUIESCAT, timestamp), OpenResources)

NextWindow == OnCastReopen \/ OnCastOther \/ OnRemoveRequiescat

SpecWindow == InitWindow /\ [][NextWindow]_vars

\* ------------------------------------------------------------------ claims
\* Vocabulary of the claims, stated on the records themselves.
OpenBuffs(list, guid) ==
    { k \in 1..Len(list) : list[k].guid = guid /\ list[k].end = Null }

Selected(buff, statusId, sourceId) ==
    buff.guid = statusId /\ buff.sourceID \in {sourceId, Null}

\* The interval a buff stands for at time now.
EndAt(buff, now) == IF buff.end = Null THEN now ELSE buff.end

WellFormedAt(bs, now) ==
    \A e \in Entities : \A k \in 1..Len(bs[e]) :
        bs[e][k].start <= EndAt(bs[e][k], now)

Cells == 0..(MaxSpan + MaxTime)

\* Unit cells [t, t + 1] inside the interval of some selected buff.
CoveredCells(bs, statusId, sourceId, now) ==
    { t \in Cells :
        \E e \in Entities : \E k \in 1..Len(bs[e]) :
            /\ Selected(bs[e][k], statusId, sourceId)
            /\ bs[e][k].start <= t /\ t + 1 <= EndAt(bs[e][k], now) }

\* Unit cells inside the interval of some selected buff and inside no
\* 'invulnerable' interval of the entity that owns the buff.
NetCells(bs, statusId, sourceId, now) ==
    { t \in Cells :
        \E e \in Entities : \E k \in 1..Len(bs[e]) :
            /\ Selected(bs[e][k], statusId, sourceId)
            /\ bs[e][k].start <= t /\ t + 1 <= EndAt(bs[e][k], now)
            /\ ~ \E i \in 1..Len(invulns[e]) :
                    /\ invulns[e][i].type = "invulnerable"
                    /\ invulns[e][i].start <= t /\ t + 1 <= invulns[e][i].end }

IsQueryStep == lastOp'.op = "getStatusUptime" /\ lastOp' # lastOp
IsEventStep(op) == lastOp'.op = op /\ log' # log

\* C1: every entity holds at most one open buff (end = null) per ability id.
C1_AtMostOneOpenBuff ==
    \A e \in Entities : \A g \in Abilities :
        Cardinality(OpenBuffs(buffs[e], g)) <= 1

\* C2: on closed buffs, getStatusUptime returns the length of the union, over
\* the selected buffs, of the buff's interval minus the 'invulnerable'
\* intervals of the entity that owns it.
C2_UptimeIsUnionNetOfInvulns ==
    [][ (IsQueryStep /\ WellFormedAt(buffs, currentTimestamp))
        => lastOp'.ret = Cardinality(NetCells(buffs, lastOp'.guid, lastOp'.sourceID,
                                              currentTimestamp)) ]_vars

\* C3: with no invulns, getStatusUptime returns the length of the union of the
\* selected buffs' intervals: an instant under several buffs counts once.
C3_OverlapCountedOnce ==
    (lastOp.op = "getStatusUptime" /\ \A e \in Entities : invulns[e] = << >>)
    => lastOp.ret = Cardinality(CoveredCells(buffs, lastOp.guid, lastOp.sourceID,
                                             currentTimestamp))

\* C3 witness: a query over two selected buffs on two entities that overlap,
\* answered with less than the sum of their lengths.
C3_Witness ==
    /\ lastOp.op = "getStatusUptime"
    /\ \A e \in Entities : invulns[e] = << >>
    /\ \E j \in 1..Len(buffs[1]) : \E k \in 1..Len(buffs[2]) :
        /\ Selected(buffs[1][j], lastOp.guid, lastOp.sourceID)
        /\ Selected(buffs[2][k], lastOp.guid, lastOp.sourceID)
        /\ buffs[1][j].start < buffs[2][k].start
        /\ buffs[2][k].start < buffs[1][j].end
        /\ buffs[1][j].end < buffs[2][k].end
        /\ lastOp.ret = buffs[2][k].end - buffs[1][j].start
        /\ lastOp.ret < (buffs[1][j].end - buffs[1][j].start)
                        + (buffs[2][k].end - buffs[2][k].start)

\* The buff lists without buff k of entity e.
WithoutBuff(bs, e, k) ==
    [bs EXCEPT ![e] = SubSeq(@, 1, k - 1) \o SubSeq(@, k + 1, Len(@))]

Contained(buff, invuln) ==
    /\ invuln.type = "invulnerable"
    /\ invuln.start <= buff.start /\ invuln.end >= buff.end

\* C4: a selected buff whose interval lies inside an 'invulnerable' interval of
\* its entity adds nothing: the result is that of the lists without the buff.
C4_ContainedBuffAddsNothing ==
    [][ (IsQueryStep /\ WellFormedAt(buffs, currentTimestamp))
        => \A e \in Entities : \A k \in 1..Len(buffs[e]) :
            ( /\ Selected(buffs[e][k], lastOp'.guid, lastOp'.sourceID)
              /\ \E i \in 1..Len(invulns[e]) : Contained(buffs[e][k], invulns[e][i]) )
            => lastOp'.ret = statusUptime(WithoutBuff(buffs, e, k), lastOp'.guid,
                                          lastOp'.sourceID, currentTimestamp) ]_vars

\* C5: getStatusUptime is read-only: the buff lists are as before the call and
\* the same call made again returns the same value.
C5_UptimeIsReadOnly ==
    [][ IsQueryStep
        => /\ buffs' = buffs
           /\ statusUptime(buffs', lastOp'.guid, lastOp'.sourceID, currentTimestamp')
                = lastOp'.ret ]_vars

\* C6 case: buff k of entity e is the only selected buff and the only invuln
\* of the fight is an 'invulnerable' one of e strictly inside it.
StrictlyInside(bs, e, k, statusId, sourceId) ==
    /\ Selected(bs[e][k], statusId, sourceId)
    /\ \A f \in Entities : \A j \in 1..Len(bs[f]) :
            Selected(bs[f][j], statusId, sourceId) => (f = e /\ j = k)
    /\ \A f \in Entities : Len(invulns[f]) = (IF f = e THEN 1 ELSE 0)
    /\ invulns[e][1].type = "invulnerable"
    /\ bs[e][k].start < invulns[e][1].start
    /\ invulns[e][1].end < bs[e][k].end

\* C6: an 'invulnerable' interval strictly inside a selected buff splits it into
\* [buff.start, invuln.start] and [invuln.end, buff.end]; with no other buff
\* selected the uptime is the buff's length minus the invuln's.
C6_InvulnInsideSplitsBuff ==
    [][ IsQueryStep
        => \A e \in Entities : \A k \in 1..Len(buffs[e]) :
            StrictlyInside(buffs, e, k, lastOp'.guid, lastOp'.sourceID)
            => /\ [i \in 1..Len(buffRanges(e, buffs[e][k]).ranges) |->
                     << buffRanges(e, buffs[e][k]).ranges[i].start,
                        buffRanges(e, buffs[e][k]).ranges[i].end >>]
                  = << <<buffs[e][k].start, invulns[e][1].start>>,
                       <<invulns[e][1].end, buffs[e][k].end>> >>
               /\ lastOp'.ret = (buffs[e][k].end - buffs[e][k].start)
                                - (invulns[e][1].end - invulns[e][1].start) ]_vars

\* C6 witness: a query answered for a buff split by an invuln inside it.
C6_Witness ==
    /\ lastOp.op = "getStatusUptime"
    /\ \E e \in Entities : \E k \in 1..Len(buffs[e]) :
        /\ StrictlyInside(buffs, e, k, lastOp.guid, lastOp.sourceID)
        /\ lastOp.ret = (invulns[e][1].start - buffs[e][k].start)
                        + (buffs[e][k].end - invulns[e][1].end)
        /\ lastOp.ret > 0

\* C7 case: the event of the step is a removeBuff on a resolvable entity that
\* holds no open buff of the ability.
RemovesUnknownBuff ==
    /\ IsEventStep("removeBuff")
    /\ lastOp'.entity \in Entities
    /\ OpenBuffs(buffs[lastOp'.entity], lastOp'.guid) = {}

UpdatesUnknownBuff ==
    /\ IsEventStep("updateBuffStack")
    /\ lastOp'.entity \in Entities
    /\ OpenBuffs(buffs[lastOp'.entity], lastOp'.guid) = {}

\* C8: updateBuffStack with no open buff creates or changes no buff, emits no
\* event, and the next event is handled as usual.
C8_UpdateOfUnknownBuffIsDropped ==
    [][ UpdatesUnknownBuff
        => /\ buffs' = buffs
           /\ fabricated' = fabricated
           /\ (Len(log') < MaxEvents => ingesting') ]_vars

\* C8 witness: an update arrived for an ability whose only buff had ended.
C8_Witness ==
    /\ lastOp.op = "updateBuffStack"
    /\ lastOp.entity \in Entities
    /\ OpenBuffs(buffs[lastOp.entity], lastOp.guid) = {}
    /\ \E k \in 1..Len(buffs[lastOp.entity]) :
            buffs[lastOp.entity][k].guid = lastOp.guid
    /\ Len(fabricated) = Len(log) - 1

\* C9 case: the log is one applyBuff, then stack updates, then one removeBuff
\* no earlier than the apply, all of one ability on one resolvable entity.
ApplyStackRemove ==
    /\ Len(log) >= 2
    /\ log[1].op = "applyBuff"
    /\ log[Len(log)].op = "removeBuff"
    /\ log[1].entity \in Entities
    /\ log[Len(log)].timestamp >= log[1].timestamp
    /\ \A i \in 2..(Len(log) - 1) : log[i].op = "updateBuffStack"
    /\ \A i \in 1..Len(log) :
            log[i].entity = log[1].entity /\ log[i].guid = log[1].guid

\* C9: apply at t0, k stack updates, remove at t1 >= t0 leave one closed buff
\* [t0, t1] whose stackHistory is 1@t0, the k updates in order, 0@t1, and
\* getStatusUptime returns t1 - t0.
C9_ApplyStackRemoveScenario ==
    ApplyStackRemove
    => LET e == log[1].entity
           n == Len(log)
       IN  /\ Len(buffs[e]) = 1
           /\ buffs[e][1].start = log[1].timestamp
           /\ buffs[e][1].end = log[n].timestamp
           /\ buffs[e][1].stackHistory
                = [i \in 1..n |->
                    [stacks |-> IF i = 1 THEN 1 ELSE IF i = n THEN 0 ELSE log[i].stack,
                     timestamp |-> log[i].timestamp]]
           /\ statusUptime(buffs, log[1].guid, PlayerId, currentTimestamp)
                = log[n].timestamp - log[1].timestamp
           /\ (lastOp.op = "getStatusUptime" /\ lastOp.guid = log[1].guid)
                => lastOp.ret = log[n].timestamp - log[1].timestamp

\* C9 witness: apply, one stack update, remove, then the query.
C9_Witness ==
    /\ ApplyStackRemove
    /\ Len(log) = 3
    /\ log[1].timestamp < log[3].timestamp
    /\ lastOp.op = "getStatusUptime" /\ lastOp.guid = log[1].guid
    /\ lastOp.ret = log[3].timestamp - log[1].timestamp
    /\ Len(buffs[log[1].entity][1].stackHistory) = 3

\* C10 case: the event of the step is an opener cast.
IsOpenerCast ==
    /\ IsEventStep("onCast")
    /\ lastOp'.guid = REQUIESCAT

OpensWindow ==
    /\ requiescatState'.start = lastOp'.timestamp
    /\ requiescatErrorResult'.missedRequiescatBuffs
            = requiescatErrorResult.missedRequiescatBuffs

TalliesOnly ==
    /\ requiescatState'.start = requiescatState.start
    /\ requiescatErrorResult'.missedRequiescatBuffs
            = requiescatErrorResult.missedRequiescatBuffs + 1

\* C10 as stated: an opener cast at 80 % of the maximum resource or more opens
\* a window and leaves the tally; one at 70 % adds one to the tally and opens
\* no window, whatever the maximum.
C10_GateAtEightyPercent ==
    [][ IsOpenerCast
        => /\ (resources'.mp * 100 >= 80 * resources'.maxMP => OpensWindow)
           /\ (resources'.mp * 100 = 70 * resources'.maxMP => TalliesOnly) ]_vars

\* C10 amended: as stated, but the cast at 70 % is tallied only when the
\* maximum exceeds ten MP ticks (1410); up to that maximum the allowance of one
\* tick opens the window.
C10_GateWithTickAllowance ==
    [][ IsOpenerCast
        => /\ (resources'.mp * 100 >= 80 * resources'.maxMP => OpensWindow)
           /\ (resources'.mp * 100 = 70 * resources'.maxMP
               => IF resources'.maxMP > 1410 THEN TalliesOnly ELSE OpensWindow) ]_vars

\* C10 witness: an opener cast at 70 % of a large pool was tallied with no
\* window open, after one at 85 % had opened a window that has been closed.
C10_Witness ==
    /\ lastOp.op = "onCast" /\ lastOp.guid = REQUIESCAT
    /\ resources.mp * 100 = 70 * resources.maxMP
    /\ resources.maxMP > 1410
    /\ requiescatState.start = Null
    /\ requiescatErrorResult.missedRequiescatBuffs = 1
    /\ \E t \in Times : requiescatRotations[t] # << >>

\* C11 case: the event of the step is the buff removal, with a window open.
ClosesWindow ==
    /\ IsEventStep("onRemoveRequiescat")
    /\ requiescatState.start # Null

\* C11: closing a window adds max(0, 5 - counter) to the shortfall tally (2
\* for a counter of 3, 0 for 5 or more), leaves the classifier Idle with the
\* counter at 0, and no step lowers the tally.
C11_CloseAddsShortfall ==
    [][ /\ requiescatErrorResult'.missedHolySpirits
                >= requiescatErrorResult.missedHolySpirits
        /\ ClosesWindow
            => LET counter == requiescatState.holySpirits
                   added == requiescatErrorResult'.missedHolySpirits
                                - requiescatErrorResult.missedHolySpirits
               IN  /\ added = (IF counter >= 5 THEN 0 ELSE 5 - counter)
                   /\ (counter = 3 => added = 2)
                   /\ requiescatState'.start = Null
                   /\ requiescatState'.holySpirits = 0 ]_vars

\* C11 witness: a window with 3 Holy Spirits was closed for a shortfall of 2.
C11_Witness ==
    /\ lastOp.op = "onRemoveRequiescat"
    /\ requiescatState = IdleState
    /\ requiescatErrorResult.missedHolySpirits = 2
    /\ \E t \in Times :
        Cardinality({i \in 1..Len(requiescatRotations[t]) :
                        requiescatRotations[t][i].guid = HOLY_SPIRIT}) = 3

\* C12: a cast of Attack changes neither the window state, nor any window's
\* event list, nor either tally, with a window open or not.
C12_AttackChangesNothing ==
    [][ (IsEventStep("onCast") /\ lastOp'.guid = ATTACK)
        => /\ requiescatState' = requiescatState
           /\ requiescatRotations' = requiescatRotations
           /\ requiescatErrorResult' = requiescatErrorResult ]_vars

\* C12 witness: Attack was cast in an open window and is in no event list.
C12_Witness ==
    /\ lastOp.op = "onCast" /\ lastOp.guid = ATTACK
    /\ requiescatState.start # Null
    /\ Len(requiescatRotations[requiescatState.start]) = 2
    /\ \A t \in Times : \A i \in 1..Len(requiescatRotations[t]) :
            requiescatRotations[t][i].guid # ATTACK

\* C13 case: buff k of entity e is open and selected, and the first invuln of
\* e is an 'invulnerable' one strictly inside [buff.start, now].
OpenAroundInvuln(bs, e, k, statusId, sourceId, now) ==
    /\ Selected(bs[e][k], statusId, sourceId)
    /\ bs[e][k].end = Null
    /\ Len(invulns[e]) >= 1
    /\ invulns[e][1].type = "invulnerable"
    /\ bs[e][k].start < invulns[e][1].start
    /\ invulns[e][1].end < now

\* C13: an open selected buff counts as [start, currentTimestamp] less the
\* 'invulnerable' intervals of its entity inside that span: with one buff and
\* one invuln, (currentTimestamp - start) - (invuln.end - invuln.start).
C13_OpenBuffNetOfInvulns ==
    [][ IsQueryStep
        => \A e \in Entities : \A k \in 1..Len(buffs[e]) :
            OpenAroundInvuln(buffs, e, k, lastOp'.guid, lastOp'.sourceID, currentTimestamp)
            => lastOp'.ret = (currentTimestamp - buffs[e][k].start)
                             - (invulns[e][1].end - invulns[e][1].start) ]_vars

\* C14: the stackHistory of every buff starts with stacks = 1 at buff.start
\* and its timestamps never decrease.
C14_StackHistoryMonotonic ==
    \A e \in Entities : \A k \in 1..Len(buffs[e]) :
        LET h == buffs[e][k].stackHistory IN
        /\ h[1] = [stacks |-> 1, timestamp |-> buffs[e][k].start]
        /\ \A i \in 1..(Len(h) - 1) : h[i].timestamp <= h[i + 1].timestamp

\* C15: every closed buff has start <= end.
C15_ClosedBuffStartsBeforeEnd ==
    \A e \in Entities : \A k \in 1..Len(buffs[e]) :
        buffs[e][k].end # Null => buffs[e][k].start <= buffs[e][k].end

\* The buff lists with the buffs the query does not select taken out.
OnlySelected(bs, statusId, sourceId) ==
    [e \in Entities |->
        SelectSeq(bs[e], LAMBDA buff : Selected(buff, statusId, sourceId))]

\* C16: getStatusUptime returns what it returns on the selected buffs alone
\* (ability = statusId, source = sourceId or null), so no other buff changes
\* the value; with no invulns that is the length of the union of the
\* selected buffs' intervals.
C16_OnlySelectedBuffsCount ==
    [][ IsQueryStep
        => /\ lastOp'.ret = statusUptime(OnlySelected(buffs, lastOp'.guid, lastOp'.sourceID),
                                         lastOp'.guid, lastOp'.sourceID, currentTimestamp)
           /\ \A e \in Entities : \A k \in 1..Len(buffs[e]) :
                ~ Selected(buffs[e][k], lastOp'.guid, lastOp'.sourceID)
                => lastOp'.ret = statusUptime(WithoutBuff(buffs, e, k), lastOp'.guid,
                                              lastOp'.sourceID, currentTimestamp)
           /\ (\A e \in Entities : invulns[e] = << >>)
                => lastOp'.ret = Cardinality(CoveredCells(buffs, lastOp'.guid,
                                                lastOp'.sourceID, currentTimestamp)) ]_vars

\* C16 witness: a query for another source's status 1 was answered with the
\* length of the buff with no recorded source alone, next to a buff of the
\* player's of the same status.
C16_Witness ==
    /\ lastOp.op = "getStatusUptime"
    /\ lastOp.guid = 1 /\ lastOp.sourceID = OtherId
    /\ \A e \in Entities : invulns[e] = << >>
    /\ Len(buffs[1]) = 2
    /\ buffs[1][1].guid = 1 /\ buffs[1][1].sourceID = PlayerId
    /\ buffs[1][2].guid = 1 /\ buffs[1][2].sourceID = Null
    /\ buffs[1][1].end <= buffs[1][2].start
    /\ lastOp.ret = buffs[1][2].end - buffs[1][2].start

\* The buff of entity e that the step appended or changed.
ChangedBuff(e) ==
    CHOOSE k \in 1..Len(buffs'[e]) : k > Len(buffs[e]) \/ buffs'[e][k] # buffs[e][k]

IsNumber(x) == x \notin {Null, Undefined, NaN}

\* C17: each stack-change event the tracker emits has numbers for oldStacks,
\* newStacks and stacksGained = newStacks - oldStacks; newStacks is the count
\* of the stackHistory entry just appended and oldStacks that of the entry
\* before it (0 for an apply).
C17_StackChangeCarriesHistory ==
    [][ Len(fabricated') > Len(fabricated)
        => LET ev == fabricated'[Len(fabricated')]
               h == buffs'[lastOp'.entity][ChangedBuff(lastOp'.entity)].stackHistory
           IN  /\ IsNumber(ev.oldStacks) /\ IsNumber(ev.newStacks)
               /\ IsNumber(ev.stacksGained)
               /\ ev.stacksGained = ev.newStacks - ev.oldStacks
               /\ ev.newStacks = h[Len(h)].stacks
               /\ ev.oldStacks = (IF lastOp'.op = "applyBuff" THEN 0
                                  ELSE h[Len(h) - 1].stacks) ]_vars

\* C18: a buff removal that arrives with no window open leaves the shortfall
\* tally as it was.
C18_IdleRemovalLeavesTally ==
    [][ (IsEventStep("onRemoveRequiescat") /\ requiescatState.start = Null)
        => requiescatErrorResult'.missedHolySpirits
                = requiescatErrorResult.missedHolySpirits ]_vars

\* C19: while a window is open, the counter is the number of Holy Spirit casts
\* in the rotation list kept under the window's start, and that list begins
\* with the opener cast made at that timestamp.
C19_CounterMatchesRotation ==
    requiescatState.start # Null
    => LET rotation == requiescatRotations[requiescatState.start] IN
       /\ rotation # << >>
       /\ rotation[1].guid = REQUIESCAT
       /\ rotation[1].timestamp = requiescatState.start
       /\ requiescatState.holySpirits
            = Cardinality({i \in 1..Len(rotation) : rotation[i].guid = HOLY_SPIRIT})

\* C20: right after removeBuff for an event that resolves to an entity, the
\* entity holds no open buff of the event's ability.
C20_RemoveLeavesNoOpenBuff ==
    [][ (IsEventStep("removeBuff") /\ lastOp'.entity \in Entities)
        => OpenBuffs(buffs'[lastOp'.entity], lastOp'.guid) = {} ]_vars

====
